---------------------------- MODULE Spec2Model ----------------------------
(***************************************************************************)
(* A model of cargo's manifest compiler, src/cargo/util/toml.rs:           *)
(* project_layout, to_manifest, TomlManifest::to_manifest, normalize,      *)
(* process_dependencies and add_unused_keys.                               *)
(*                                                                         *)
(* One compile is one behaviour: Init draws the inputs (the files under    *)
(* the project root, the decoded manifest, the package's own SourceId and  *)
(* what the decoder left unconsumed), and the actions are the steps of     *)
(* to_manifest in program order.                                           *)
(***************************************************************************)
EXTENDS Integers, Sequences, FiniteSets, TLC

(***************************************************************************)
(* Option<T>: None is the empty sequence, Some(v) the one-element one.     *)
(***************************************************************************)
None == <<>>

Some(v) == <<v>>

is_some(o) == o # <<>>

is_none(o) == o = <<>>

unwrap_or(o, d) == IF o = <<>> THEN d ELSE o[1]

Opt(S) == {None} \cup {Some(v) : v \in S}

RECURSIVE Flatten(_)
Flatten(ss) == IF ss = <<>> THEN <<>> ELSE Head(ss) \o Flatten(Tail(ss))

Range(s) == {s[i] : i \in DOMAIN s}

(***************************************************************************)
(* Path and string helpers of the standard library, computed on the text.  *)
(***************************************************************************)
RECURSIVE LastIndexOf(_, _, _)
LastIndexOf(s, c, i) ==
    IF i = 0 THEN 0
    ELSE IF SubSeq(s, i, i) = c THEN i
    ELSE LastIndexOf(s, c, i - 1)

\* Path::filename_str: the text after the last '/'.
filename_str(p) == SubSeq(p, LastIndexOf(p, "/", Len(p)) + 1, Len(p))

\* Path::filestem_str: the file name up to its last '.', the whole name when
\* it has none or only a leading one.
filestem_str(p) ==
    LET f == filename_str(p)
        d == LastIndexOf(f, ".", Len(f))
    IN  IF d <= 1 THEN f ELSE SubSeq(f, 1, d - 1)

\* Path::extension_str: the text after the last '.' of the file name.
extension_str(p) ==
    LET f == filename_str(p)
        d == LastIndexOf(f, ".", Len(f))
    IN  IF d <= 1 THEN None ELSE Some(SubSeq(f, d + 1, Len(f)))

\* The directory part of a path, without the trailing '/'.
dirname(p) ==
    LET i == LastIndexOf(p, "/", Len(p))
    IN  IF i = 0 THEN "" ELSE SubSeq(p, 1, i - 1)

ends_with(s, suffix) ==
    /\ Len(s) >= Len(suffix)
    /\ SubSeq(s, Len(s) - Len(suffix) + 1, Len(s)) = suffix


(***************************************************************************)
(* Layout: the project files cargo looks at.  The project root is left     *)
(* implicit: every path is the path below the root, so the two spellings   *)
(* of the main file that inferred_bin_targets compares with ("src/main.rs" *)
(* and root.join("src/main.rs")) are one.                                  *)
(***************************************************************************)

\* The files a project root may hold, in the order readdir lists them.
FsUniverse ==
    << "src/lib.rs", "src/main.rs", "src/bin/foo.rs", "src/bin/tool.rs",
       "src/bin/notes.txt", "examples/ex.rs", "tests/foo.rs",
       "benches/foo.rs", "build.rs" >>

\* try_add_file: the file, when it exists.
try_add_file(files, fs, file) ==
    IF file \in fs THEN Append(files, file) ELSE files

\* try_add_files: the directory's entries with the extension "rs".
try_add_files(files, fs, dir) ==
    files \o SelectSeq(FsUniverse,
                       LAMBDA f : /\ f \in fs
                                  /\ dirname(f) = dir
                                  /\ extension_str(f) = Some("rs"))

project_layout(fs) ==
    [ lib      |-> IF "src/lib.rs" \in fs THEN Some("src/lib.rs") ELSE None,
      bins     |-> try_add_files(try_add_file(<<>>, fs, "src/main.rs"),
                                 fs, "src/bin"),
      examples |-> try_add_files(<<>>, fs, "examples"),
      tests    |-> try_add_files(<<>>, fs, "tests"),
      benches  |-> try_add_files(<<>>, fs, "benches") ]

\* Layout::main: the first binary whose file name is "main.rs".
Layout_main(l) ==
    LET hits == SelectSeq(l.bins, LAMBDA p : filename_str(p) = "main.rs")
    IN  IF hits = <<>> THEN None ELSE Some(hits[1])

(***************************************************************************)
(* TomlTarget and the descriptors inferred from the layout.                *)
(***************************************************************************)
TomlTarget_new ==
    [ name |-> "", crate_type |-> None, path |-> None, test |-> None,
      doctest |-> None, bench |-> None, doc |-> None, plugin |-> None,
      harness |-> None ]

inferred_lib_target(name, l) ==
    IF is_some(l.lib)
    THEN << [TomlTarget_new EXCEPT !.name = name, !.path = Some(l.lib[1])] >>
    ELSE <<>>

\* inferred_bin_target naming every file, the main file too, by its stem.
inferred_bin_target_by_stem(name, bin) ==
    [TomlTarget_new EXCEPT !.name = filestem_str(bin), !.path = Some(bin)]

inferred_bin_target(name, bin) ==
    [TomlTarget_new EXCEPT
        !.name = IF bin = "src/main.rs" THEN name ELSE filestem_str(bin),
        !.path = Some(bin)]

inferred_bin_targets(name, l) ==
    [i \in DOMAIN l.bins |-> inferred_bin_target(name, l.bins[i])]

\* inferred_example_targets, inferred_test_targets and inferred_bench_targets
\* are the same function of their own file list.
inferred_file_targets(files) ==
    [i \in DOMAIN files |->
        [TomlTarget_new EXCEPT !.name = filestem_str(files[i]),
                               !.path = Some(files[i])]]

inferred_example_targets(l) == inferred_file_targets(l.examples)

inferred_test_targets(l) == inferred_file_targets(l.tests)

inferred_bench_targets(l) == inferred_file_targets(l.benches)

(***************************************************************************)
(* Profile, Metadata and Target (core::manifest, core::package_id).        *)
(***************************************************************************)
Profile_default ==
    [ env |-> "", opt_level |-> 0, codegen_units |-> None, debug |-> FALSE,
      rpath |-> FALSE, test |-> FALSE, doctest |-> FALSE, doc |-> FALSE,
      for_host |-> FALSE, harness |-> TRUE, custom_build |-> FALSE ]

Profile_default_dev ==
    [Profile_default EXCEPT !.env = "compile", !.debug = TRUE]

Profile_default_release ==
    [Profile_default EXCEPT !.env = "release", !.opt_level = 3]

Profile_default_test ==
    [Profile_default EXCEPT !.env = "test", !.debug = TRUE, !.test = TRUE]

Profile_default_doc ==
    [Profile_default EXCEPT !.env = "doc", !.doc = TRUE]

Profile_default_bench ==
    [Profile_default EXCEPT !.env = "bench", !.opt_level = 3, !.test = TRUE]

is_test(profile) == profile.test

\* PackageId::generate_metadata: the package's fingerprint, nothing mixed in.
generate_metadata(pkgid) == [pkg |-> pkgid, mixed |-> <<>>]

\* Metadata::mix: the fingerprint rehashed with one more string.
mix(metadata, s) == [metadata EXCEPT !.mixed = Append(@, s)]

Target_new(kind, name, crate_types, path, profile, metadata) ==
    [ kind |-> kind, name |-> name, crate_types |-> crate_types,
      src_path |-> path, profile |-> profile, metadata |-> metadata ]

\* LibKind::from_strs: the kinds named, or an error on an unknown name.
LibKind_from_strs(kinds) ==
    IF \A i \in DOMAIN kinds : kinds[i] \in {"lib", "rlib", "dylib", "staticlib"}
    THEN Some(kinds)
    ELSE None

(***************************************************************************)
(* normalize and its local functions.                                      *)
(***************************************************************************)

\* merge: the sparse override of one profile kind laid over a baseline.
merge_keeps_debug(profile, toml) ==
    IF is_none(toml) THEN profile
    ELSE [profile EXCEPT
            !.opt_level     = unwrap_or(toml[1].opt_level, profile.opt_level),
            !.codegen_units = toml[1].codegen_units,
            !.rpath         = unwrap_or(toml[1].rpath, profile.rpath)]

merge(profile, toml) ==
    IF is_none(toml) THEN profile
    ELSE [profile EXCEPT
            !.opt_level     = unwrap_or(toml[1].opt_level, profile.opt_level),
            !.codegen_units = toml[1].codegen_units,
            !.debug         = unwrap_or(toml[1].debug, profile.debug),
            !.rpath         = unwrap_or(toml[1].rpath, profile.rpath)]

\* target_profile_list with the bench variant decided by the test flag.
target_profile_list_bench_by_test(target, profiles, dep) ==
    << merge(Profile_default_dev, profiles.dev),
       merge(Profile_default_release, profiles.release) >>
    \o (IF target.test # Some(FALSE)
        THEN << merge(Profile_default_test, profiles.test) >>
        ELSE <<>>)
    \o (IF target.doc # Some(FALSE)
        THEN << merge([Profile_default_doc EXCEPT
                          !.doctest = unwrap_or(target.doctest, TRUE)],
                      profiles.doc) >>
        ELSE <<>>)
    \o (IF target.test # Some(FALSE)
        THEN << merge(Profile_default_bench, profiles.bench) >>
        ELSE <<>>)
    \o (IF dep = "Needed"
        THEN << merge([Profile_default_test EXCEPT !.test = FALSE],
                      profiles.test),
                merge([Profile_default_doc EXCEPT !.doc = FALSE],
                      profiles.doc),
                merge([Profile_default_bench EXCEPT !.test = FALSE],
                      profiles.bench) >>
        ELSE <<>>)

\* target_profiles, up to the plugin flag: the variants of one lib or bin.
target_profile_list(target, profiles, dep) ==
    << merge(Profile_default_dev, profiles.dev),
       merge(Profile_default_release, profiles.release) >>
    \o (IF target.test # Some(FALSE)
        THEN << merge(Profile_default_test, profiles.test) >>
        ELSE <<>>)
    \o (IF target.doc # Some(FALSE)
        THEN << merge([Profile_default_doc EXCEPT
                          !.doctest = unwrap_or(target.doctest, TRUE)],
                      profiles.doc) >>
        ELSE <<>>)
    \o (IF target.bench # Some(FALSE)
        THEN << merge(Profile_default_bench, profiles.bench) >>
        ELSE <<>>)
    \o (IF dep = "Needed"
        THEN << merge([Profile_default_test EXCEPT !.test = FALSE],
                      profiles.test),
                merge([Profile_default_doc EXCEPT !.doc = FALSE],
                      profiles.doc),
                merge([Profile_default_bench EXCEPT !.test = FALSE],
                      profiles.bench) >>
        ELSE <<>>)

target_profiles(target, profiles, dep) ==
    LET ret == target_profile_list(target, profiles, dep)
    IN  IF target.plugin = Some(TRUE)
        THEN [i \in DOMAIN ret |-> [ret[i] EXCEPT !.for_host = TRUE]]
        ELSE ret

\* The metadata lib_targets gives one profile variant of the library.
lib_metadata(profile, metadata) ==
    IF is_test(profile) THEN mix(metadata, "test") ELSE metadata

\* lib_targets run over every descriptor of the list, not the first alone.
lib_targets_every(libs, dep, metadata, profiles) ==
    Flatten([k \in DOMAIN libs |->
        LET l == libs[k]
            path == unwrap_or(l.path, "src/" \o l.name \o ".rs")
            given == IF is_some(l.crate_type)
                     THEN LibKind_from_strs(l.crate_type[1])
                     ELSE None
            crate_types ==
                unwrap_or(given,
                          << IF l.plugin = Some(TRUE) THEN "dylib" ELSE "lib" >>)
            ps == target_profiles(l, profiles, dep)
        IN  [i \in DOMAIN ps |->
                Target_new("lib", l.name, crate_types, path, ps[i],
                           Some(lib_metadata(ps[i], metadata)))]])

lib_targets(libs, dep, metadata, profiles) ==
    LET l == libs[1]
        path == unwrap_or(l.path, "src/" \o l.name \o ".rs")
        given == IF is_some(l.crate_type)
                 THEN LibKind_from_strs(l.crate_type[1])
                 ELSE None
        crate_types ==
            unwrap_or(given,
                      << IF l.plugin = Some(TRUE) THEN "dylib" ELSE "lib" >>)
        ps == target_profiles(l, profiles, dep)
    IN  [i \in DOMAIN ps |->
            Target_new("lib", l.name, crate_types, path, ps[i],
                       Some(lib_metadata(ps[i], metadata)))]

\* bin_metadata with the library's tag mixed in.
bin_metadata_test_tag(bin, profile, metadata) ==
    IF is_test(profile) THEN Some(mix(metadata, "test")) ELSE None

\* The metadata bin_targets gives one profile variant of a binary.
bin_metadata(bin, profile, metadata) ==
    IF is_test(profile)
    THEN Some(mix(metadata, "bin-" \o bin.name))
    ELSE None

\* bin_targets for one binary; default is the path it gets without one.
bin_target(bin, dep, metadata, profiles, default) ==
    LET path == unwrap_or(bin.path, default)
        ps == target_profiles(bin, profiles, dep)
    IN  [i \in DOMAIN ps |->
            Target_new("bin", bin.name, None, path, ps[i],
                       bin_metadata(bin, ps[i], metadata))]

bin_targets(bins, dep, metadata, profiles, dir) ==
    Flatten([i \in DOMAIN bins |->
                bin_target(bins[i], dep, metadata, profiles,
                           dir \o bins[i].name \o ".rs")])

custom_build_target(cmd, profiles) ==
    << Target_new("custom_build",
                  "build-script-" \o filestem_str(cmd), None, cmd,
                  merge([Profile_default_dev EXCEPT !.for_host = TRUE,
                                                    !.custom_build = TRUE],
                        profiles.dev),
                  None) >>

example_targets(examples, profiles) ==
    [i \in DOMAIN examples |->
        Target_new("example", examples[i].name, None,
                   unwrap_or(examples[i].path,
                             "examples/" \o examples[i].name \o ".rs"),
                   merge([Profile_default_test EXCEPT !.test = FALSE],
                         profiles.test),
                   None)]

test_targets(tests, metadata, profiles) ==
    [i \in DOMAIN tests |->
        Target_new("test", tests[i].name, None,
                   unwrap_or(tests[i].path,
                             IF tests[i].name = "test"
                             THEN "src/test.rs"
                             ELSE "tests/" \o tests[i].name \o ".rs"),
                   merge([Profile_default_test EXCEPT
                             !.harness = unwrap_or(tests[i].harness, TRUE)],
                         profiles.test),
                   Some(mix(metadata, "test-" \o tests[i].name)))]

bench_targets(benches, metadata, profiles) ==
    [i \in DOMAIN benches |->
        Target_new("bench", benches[i].name, None,
                   unwrap_or(benches[i].path,
                             IF benches[i].name = "bench"
                             THEN "src/bench.rs"
                             ELSE "benches/" \o benches[i].name \o ".rs"),
                   merge([Profile_default_bench EXCEPT
                             !.harness = unwrap_or(benches[i].harness, TRUE)],
                         profiles.bench),
                   Some(mix(metadata, "bench-" \o benches[i].name)))]

\* test_dep: whether anything links the library or binaries in test mode.
test_dep(examples, tests, benches) ==
    IF Len(examples) > 0 \/ Len(tests) > 0 \/ Len(benches) > 0
    THEN "Needed"
    ELSE "NotNeeded"

\* lib_bin_targets with the library given NotNeeded: without the variants
\* other targets link against.
lib_bin_targets_not_needed(libs, bins, dep, metadata, profiles) ==
    CASE Len(libs) > 0 /\ Len(bins) > 0 ->
            lib_targets(libs, "NotNeeded", metadata, profiles)
            \o bin_targets(bins, dep, metadata, profiles, "src/bin/")
      [] Len(libs) > 0 /\ Len(bins) = 0 ->
            lib_targets(libs, "NotNeeded", metadata, profiles)
      [] Len(libs) = 0 /\ Len(bins) > 0 ->
            bin_targets(bins, dep, metadata, profiles, "src/")
      [] OTHER -> <<>>

\* lib_bin_targets with the library given test_dep, and the binaries given
\* it only when there is no library.
lib_bin_targets_by_test_dep(libs, bins, dep, metadata, profiles) ==
    CASE Len(libs) > 0 /\ Len(bins) > 0 ->
            lib_targets(libs, dep, metadata, profiles)
            \o bin_targets(bins, "NotNeeded", metadata, profiles, "src/bin/")
      [] Len(libs) > 0 /\ Len(bins) = 0 ->
            lib_targets(libs, dep, metadata, profiles)
      [] Len(libs) = 0 /\ Len(bins) > 0 ->
            bin_targets(bins, dep, metadata, profiles, "src/")
      [] OTHER -> <<>>

\* The match on (libs, bins): the library's and the binaries' targets.
lib_bin_targets(libs, bins, dep, metadata, profiles) ==
    CASE Len(libs) > 0 /\ Len(bins) > 0 ->
            lib_targets(libs, "Needed", metadata, profiles)
            \o bin_targets(bins, dep, metadata, profiles, "src/bin/")
      [] Len(libs) > 0 /\ Len(bins) = 0 ->
            lib_targets(libs, "Needed", metadata, profiles)
      [] Len(libs) = 0 /\ Len(bins) > 0 ->
            bin_targets(bins, dep, metadata, profiles, "src/")
      [] OTHER -> <<>>

normalize(libs, bins, custom_build, examples, tests, benches, metadata, profiles) ==
    lib_bin_targets(libs, bins, test_dep(examples, tests, benches), metadata,
                    profiles)
    \o (IF is_some(custom_build)
        THEN custom_build_target(custom_build[1], profiles)
        ELSE <<>>)
    \o example_targets(examples, profiles)
    \o test_targets(tests, metadata, profiles)
    \o bench_targets(benches, metadata, profiles)

(***************************************************************************)
(* TomlManifest::to_manifest: the descriptors of each role.                *)
(***************************************************************************)

\* ManyOrOne<T>, and the two shapes of the build field.
One(t) == [many |-> FALSE, items |-> << t >>]

Many(ts) == [many |-> TRUE, items |-> ts]

SingleBuildCommand(cmd) == [multiple |-> FALSE, cmds |-> << cmd >>]

MultipleBuildCommands(cmds) == [multiple |-> TRUE, cmds |-> cmds]

\* self.project.or_else(self.package)
project_of(m) == IF is_some(m.project) THEN m.project ELSE m.package

\* A declared descriptor without a path takes the layout's file, when the
\* layout has one.
with_layout_path(t, file) ==
    IF is_some(file) /\ is_none(t.path) THEN [t EXCEPT !.path = file] ELSE t

\* used_deprecated_lib set only by a list of more than one library.
used_deprecated_lib_many_entries(m) ==
    is_some(m.lib) /\ m.lib[1].many /\ Len(m.lib[1].items) > 1

used_deprecated_lib(m) == is_some(m.lib) /\ m.lib[1].many

resolved_lib(m, l) ==
    IF is_some(m.lib)
    THEN [i \in DOMAIN m.lib[1].items |->
            with_layout_path(m.lib[1].items[i], l.lib)]
    ELSE inferred_lib_target(project_of(m)[1].name, l)

resolved_bins(m, l) ==
    IF is_some(m.bin)
    THEN [i \in DOMAIN m.bin[1] |->
            with_layout_path(m.bin[1][i], Layout_main(l))]
    ELSE inferred_bin_targets(project_of(m)[1].name, l)

resolved_examples(m, l) ==
    IF is_some(m.example) THEN m.example[1] ELSE inferred_example_targets(l)

\* resolved_tests with the layout's tests added to the declared ones.
resolved_tests_and_layout(m, l) ==
    IF is_some(m.test)
    THEN m.test[1] \o inferred_test_targets(l)
    ELSE inferred_test_targets(l)

resolved_tests(m, l) ==
    IF is_some(m.test) THEN m.test[1] ELSE inferred_test_targets(l)

resolved_benches(m, l) ==
    IF is_none(m.bench) \/ m.bench[1] = <<>>
    THEN inferred_bench_targets(l)
    ELSE m.bench[1]

\* new_build without the look at the file system.
new_build_no_exists(m, fs) ==
    LET build == project_of(m)[1].build
    IN  IF /\ is_some(build)
           /\ ~build[1].multiple
           /\ ends_with(build[1].cmds[1], ".rs")
        THEN Some(build[1].cmds[1])
        ELSE None

\* The custom build script, when the build field names one.
new_build(m, fs) ==
    LET build == project_of(m)[1].build
    IN  IF /\ is_some(build)
           /\ ~build[1].multiple
           /\ ends_with(build[1].cmds[1], ".rs")
           /\ build[1].cmds[1] \in fs
        THEN Some(build[1].cmds[1])
        ELSE None

\* The legacy build commands: every declared command that is no build script.
old_build(m, fs) ==
    LET build == project_of(m)[1].build
    IN  IF is_none(build) \/ is_some(new_build(m, fs))
        THEN <<>>
        ELSE build[1].cmds

default_profiles ==
    [test |-> None, doc |-> None, bench |-> None, dev |-> None,
     release |-> None]

manifest_targets(m, l, fs) ==
    normalize(resolved_lib(m, l), resolved_bins(m, l), new_build(m, fs),
              resolved_examples(m, l), resolved_tests(m, l),
              resolved_benches(m, l),
              generate_metadata(project_of(m)[1].name),
              unwrap_or(m.profile, default_profiles))

(***************************************************************************)
(* process_dependencies.                                                   *)
(***************************************************************************)
DetailedTomlDependency_default ==
    [ version |-> None, path |-> None, git |-> None, branch |-> None,
      tag |-> None, rev |-> None, features |-> None, optional |-> None,
      default_features |-> None ]

\* TomlDependency: of the two fields, the one the variant carries counts.
SimpleDep(version) ==
    [simple |-> TRUE, version |-> version,
     details |-> DetailedTomlDependency_default]

DetailedDep(details) == [simple |-> FALSE, version |-> "", details |-> details]

\* details_of with the shorthand's version left out.
details_of_no_version(v) ==
    IF v.simple THEN DetailedTomlDependency_default ELSE v.details

\* The detailed shape of a dependency entry.
details_of(v) ==
    IF v.simple
    THEN [DetailedTomlDependency_default EXCEPT !.version = Some(v.version)]
    ELSE v.details

\* reference_of with the tag looked at before the branch.
reference_of_tag_first(details) ==
    IF is_some(details.tag) THEN details.tag[1]
    ELSE IF is_some(details.branch) THEN details.branch[1]
    ELSE IF is_some(details.rev) THEN details.rev[1]
    ELSE "master"

\* The reference selector of a git dependency.
reference_of(details) ==
    IF is_some(details.branch) THEN details.branch[1]
    ELSE IF is_some(details.tag) THEN details.tag[1]
    ELSE IF is_some(details.rev) THEN details.rev[1]
    ELSE "master"

RECURSIVE Contains(_, _, _)
Contains(s, sub, i) ==
    IF i + Len(sub) - 1 > Len(s) THEN FALSE
    ELSE IF SubSeq(s, i, i + Len(sub) - 1) = sub THEN TRUE
    ELSE Contains(s, sub, i + 1)

\* ToUrl::to_url succeeds on text of the form scheme://rest.
to_url_ok(s) == Contains(s, "://", 2)

\* VersionReq::parse succeeds on a requirement that starts with a digit or
\* a comparison operator.
version_req_ok(s) ==
    /\ Len(s) > 0
    /\ SubSeq(s, 1, 1) \in {"0", "1", "2", "3", "4", "5", "6", "7", "8", "9",
                            "^", "~", "=", "<", ">", "*"}

SourceId_for_git(url, reference) ==
    [kind |-> "git", url |-> url, reference |-> reference]

SourceId_for_central == [kind |-> "registry", url |-> "", reference |-> ""]

SourceId_for_path(root) == [kind |-> "path", url |-> root, reference |-> ""]

\* nested_of with the path recorded whether or not a git URL is given.
nested_of_any_path(details) ==
    IF is_some(details.path) THEN << details.path[1] >> ELSE <<>>

\* The paths one entry appends to cx.nested_paths.
nested_of(details) ==
    IF is_none(details.git) /\ is_some(details.path)
    THEN << details.path[1] >>
    ELSE <<>>

\* new_source_id, for an entry whose git URL (if any) parses.
new_source_id(details, source_id) ==
    IF is_some(details.git)
    THEN SourceId_for_git(details.git[1], reference_of(details))
    ELSE IF is_some(details.path) THEN source_id
    ELSE SourceId_for_central

\* Dependency::parse followed by the closure f and the three setters.
dependency_of(n, details, f, source_id) ==
    [ name              |-> n,
      req               |-> details.version,
      source_id         |-> new_source_id(details, source_id),
      kind              |-> f.kind,
      only_for_platform |-> f.platform,
      features          |-> unwrap_or(details.features, <<>>),
      default_features  |-> unwrap_or(details.default_features, TRUE),
      optional          |-> unwrap_or(details.optional, FALSE) ]

\* dependency_error with the URL of a git dependency left unparsed.
dependency_error_url_unparsed(details) ==
    IF is_some(details.version) /\ ~version_req_ok(details.version[1])
    THEN Some("invalid version requirement")
    ELSE None

\* The error one entry of a dependency table ends process_dependencies with,
\* or None.
dependency_error(details) ==
    IF is_some(details.git) /\ ~to_url_ok(details.git[1])
    THEN Some("invalid url")
    ELSE IF is_some(details.version) /\ ~version_req_ok(details.version[1])
    THEN Some("invalid version requirement")
    ELSE None

\* One call of process_dependencies: the entries of the table, each with
\* the closure the call passes.
section_entries(table, f) ==
    IF is_none(table) THEN <<>>
    ELSE [i \in DOMAIN table[1] |->
            [n |-> table[1][i].n, v |-> table[1][i].v, f |-> f]]

platform_entries(target) ==
    IF is_none(target) THEN <<>>
    ELSE Flatten([i \in DOMAIN target[1] |->
            section_entries(target[1][i].dependencies,
                            [kind |-> "Normal",
                             platform |-> Some(target[1][i].name)])])

\* The four process_dependencies calls of to_manifest, in program order.
dependency_entries(m) ==
    section_entries(m.dependencies, [kind |-> "Normal", platform |-> None])
    \o section_entries(m.dev_dependencies,
                       [kind |-> "Development", platform |-> None])
    \o section_entries(m.build_dependencies,
                       [kind |-> "Build", platform |-> None])
    \o platform_entries(m.target)

(***************************************************************************)
(* add_unused_keys: the warnings of what the decoder left in the tree.     *)
(* A value is a leaf, a table (its entries in key order) or an array.      *)
(***************************************************************************)
Leaf == [t |-> "leaf", kv |-> <<>>, items |-> <<>>]

Table(kv) == [t |-> "table", kv |-> kv, items |-> <<>>]

Array(items) == [t |-> "array", kv |-> <<>>, items |-> items]

\* extend_key with the separator put before a top-level key too.
extend_key_dotted(key, k) == key \o "." \o k

extend_key(key, k) == IF Len(key) = 0 THEN k ELSE key \o "." \o k

RECURSIVE add_unused_keys(_, _)
add_unused_keys(toml, key) ==
    CASE toml.t = "table" ->
            Flatten([i \in DOMAIN toml.kv |->
                add_unused_keys(toml.kv[i][2], extend_key(key, toml.kv[i][1]))])
      [] toml.t = "array" ->
            Flatten([i \in DOMAIN toml.items |->
                add_unused_keys(toml.items[i], key)])
      [] OTHER -> << "unused manifest key: " \o key >>

(***************************************************************************)
(* The inputs of one compile.                                              *)
(***************************************************************************)

\* Bounds: the longest declared [[bin]] / [[lib]] list, the most entries of
\* one dependency table, and the longest array of the undecoded tree.
MaxDeclared == 2

MaxDeps == 2

MaxArr == 2

SeqsUpTo(S, n) == UNION {[1..k -> S] : k \in 0..n}

\* A declared descriptor with every optional field absent.
T(name) == [TomlTarget_new EXCEPT !.name = name]

TP(name, path) == [TomlTarget_new EXCEPT !.name = name, !.path = Some(path)]

BaseManifest ==
    [ package |-> Some([name |-> "foo", build |-> None]), project |-> None,
      profile |-> None, lib |-> None, bin |-> None, example |-> None,
      test |-> None, bench |-> None, dependencies |-> None,
      dev_dependencies |-> None, build_dependencies |-> None,
      target |-> None, features_ok |-> TRUE ]

\* contents: whether the bytes are UTF-8, parse as TOML and decode to a
\* TomlManifest.  m is what they decode to, d_toml what the decoder left.
BaseInput ==
    [ contents  |-> [utf8 |-> TRUE, syntax |-> TRUE, shape |-> TRUE],
      m         |-> BaseManifest,
      fs        |-> {"src/lib.rs"},
      source_id |-> SourceId_for_path("/proj"),
      d_toml    |-> None ]

\* Which library and binaries exist: declared, found by the layout, both.
LibDescs == {T("foo"), TP("mylib", "src/mylib.rs")}

LibDecls ==
    {None} \cup {Some(One(d)) : d \in LibDescs}
           \cup {Some(Many(ds)) : ds \in SeqsUpTo(LibDescs, MaxDeclared)}

BinDescs == {T("foo"), TP("tool", "src/tool_main.rs")}

BinDecls == {None} \cup {Some(ds) : ds \in SeqsUpTo(BinDescs, MaxDeclared)}

CoreFiles == {"src/lib.rs", "src/main.rs", "src/bin/foo.rs", "src/bin/tool.rs"}

StructInputs ==
    { [BaseInput EXCEPT !.m = [BaseManifest EXCEPT !.lib = l, !.bin = b],
                        !.fs = core] :
        l \in LibDecls, b \in BinDecls, core \in SUBSET CoreFiles }

\* Examples, tests and benchmarks: declared, found by the layout, both.
ExampleDecls == {None, Some(<< T("demo") >>)}

TestDecls ==
    { None, Some(<<>>), Some(<< T("foo") >>), Some(<< T("test") >>),
      Some(<< [T("foo") EXCEPT !.harness = Some(FALSE)] >>) }

BenchDecls ==
    { None, Some(<<>>), Some(<< T("bench") >>),
      Some(<< [T("foo") EXCEPT !.harness = Some(FALSE)] >>) }

AuxFiles ==
    {"examples/ex.rs", "tests/foo.rs", "benches/foo.rs", "src/bin/notes.txt"}

AuxInputs ==
    { [BaseInput EXCEPT
          !.m = [BaseManifest EXCEPT !.example = e, !.test = t, !.bench = b],
          !.fs = core \cup aux] :
        e \in ExampleDecls, t \in TestDecls, b \in BenchDecls,
        core \in SUBSET {"src/lib.rs", "src/main.rs"},
        aux \in SUBSET AuxFiles }

\* The flags of one declared library or binary.
FlagDescs ==
    { [T("foo") EXCEPT !.test = t, !.doc = d, !.bench = b, !.doctest = dt,
                       !.plugin = p] :
        t \in Opt(BOOLEAN), d \in Opt(BOOLEAN), b \in Opt(BOOLEAN),
        dt \in Opt(BOOLEAN), p \in Opt(BOOLEAN) }

FlagInputs ==
    { [BaseInput EXCEPT !.m = [BaseManifest EXCEPT !.lib = Some(One(d))],
                        !.fs = aux] :
        d \in FlagDescs, aux \in {{}, {"tests/foo.rs"}} }
    \cup
    { [BaseInput EXCEPT !.m = [BaseManifest EXCEPT !.bin = Some(<< d >>)],
                        !.fs = core \cup aux] :
        d \in FlagDescs, core \in {{}, {"src/lib.rs"}},
        aux \in {{}, {"tests/foo.rs"}} }

\* The [profile.*] sections.
Overrides ==
    { [opt_level |-> Some(3), codegen_units |-> None, debug |-> Some(FALSE),
       rpath |-> None],
      [opt_level |-> Some(0), codegen_units |-> Some(2), debug |-> Some(TRUE),
       rpath |-> Some(TRUE)] }

TomlProfilesSet ==
    [ test : Opt(Overrides), doc : Opt(Overrides), bench : Opt(Overrides),
      dev : Opt(Overrides), release : Opt(Overrides) ]

ProfileInputs ==
    { [BaseInput EXCEPT
          !.m = [BaseManifest EXCEPT
                    !.profile = Some(p),
                    !.package = Some([name |-> "foo", build |-> build])],
          !.fs = fs] :
        p \in TomlProfilesSet,
        build \in {None, Some(SingleBuildCommand("build.rs"))},
        fs \in { {"src/lib.rs", "src/main.rs", "tests/foo.rs", "build.rs"},
                 {"src/main.rs", "src/bin/foo.rs", "benches/foo.rs"} } }

\* The package's build field.
BuildDecls ==
    { None,
      Some(SingleBuildCommand("build.rs")),
      Some(SingleBuildCommand("src/gen.rs")),
      Some(SingleBuildCommand("make")),
      Some(SingleBuildCommand("rs")),
      Some(MultipleBuildCommands(<<>>)),
      Some(MultipleBuildCommands(<< "build.rs" >>)),
      Some(MultipleBuildCommands(<< "make", "make install" >>)) }

BuildInputs ==
    { [BaseInput EXCEPT
          !.m = [BaseManifest EXCEPT
                    !.package = Some([name |-> "foo", build |-> build]),
                    !.profile = p],
          !.fs = core \cup script] :
        build \in BuildDecls,
        p \in {None, Some([default_profiles EXCEPT !.dev =
                  Some([opt_level |-> Some(3), codegen_units |-> None,
                        debug |-> Some(FALSE), rpath |-> None])])},
        core \in {{}, {"src/lib.rs"}, {"src/main.rs"}, {"tests/foo.rs"}},
        script \in {{}, {"build.rs"}, {"rs"}} }

\* The dependency tables.  A table is its entries in the order the HashMap
\* yields them, the names distinct.
D0 == DetailedTomlDependency_default

GitUrl == "https://host/repo"

DepValues ==
    { SimpleDep("1.2"),
      SimpleDep("latest"),
      DetailedDep([D0 EXCEPT !.version = Some("1.2")]),
      DetailedDep([D0 EXCEPT !.path = Some("../foo")]),
      DetailedDep([D0 EXCEPT !.path = Some("../bar"), !.version = Some("1.2")]),
      DetailedDep([D0 EXCEPT !.git = Some(GitUrl)]),
      DetailedDep([D0 EXCEPT !.git = Some(GitUrl), !.tag = Some("v1.0")]),
      DetailedDep([D0 EXCEPT !.git = Some(GitUrl), !.rev = Some("abc"),
                             !.tag = Some("v1.0")]),
      DetailedDep([D0 EXCEPT !.git = Some(GitUrl), !.branch = Some("next"),
                             !.tag = Some("v1.0"), !.rev = Some("abc")]),
      DetailedDep([D0 EXCEPT !.git = Some(GitUrl), !.rev = Some("abc"),
                             !.path = Some("../foo")]),
      DetailedDep([D0 EXCEPT !.git = Some("host/repo"), !.tag = Some("v1.0")]),
      DetailedDep([D0 EXCEPT !.version = Some("1.2"),
                             !.features = Some(<< "x" >>),
                             !.optional = Some(TRUE),
                             !.default_features = Some(FALSE)]) }

DepNames == << "a", "b", "c" >>

\* The names tell the entries apart and nothing else, so they come in one
\* order while the values come in every order.
DepTables ==
    UNION { { [i \in 1..k |-> [n |-> DepNames[idx[i]], v |-> vs[i]]] :
                idx \in { f \in [1..k -> DOMAIN DepNames] :
                            \A i, j \in 1..k : i < j => f[i] < f[j] },
                vs \in [1..k -> DepValues] } : k \in 0..MaxDeps }

SourceIds ==
    { SourceId_for_path("/proj"), SourceId_for_git(GitUrl, "master") }

DepInputs ==
    { [BaseInput EXCEPT !.m = [BaseManifest EXCEPT !.dependencies = Some(t)],
                        !.source_id = sid] :
        t \in DepTables, sid \in {SourceId_for_path("/proj")} }
    \cup
    { [BaseInput EXCEPT !.m = [BaseManifest EXCEPT !.dependencies = Some(t)],
                        !.fs = fs, !.source_id = sid] :
        t \in {d \in DepTables : Len(d) <= 1},
        fs \in {{}, {"src/lib.rs"}}, sid \in SourceIds }
    \cup
    { [BaseInput EXCEPT !.m = [BaseManifest EXCEPT !.dependencies = Some(t)],
                        !.source_id = SourceId_for_git(GitUrl, "master")] :
        t \in {d \in DepTables :
                  \A i \in DOMAIN d : is_some(d[i].v.details.path)} }

PathDep == DetailedDep([D0 EXCEPT !.path = Some("../foo")])

BadGitDep == DetailedDep([D0 EXCEPT !.git = Some("host/repo")])

Platforms ==
    { None, Some(<<>>),
      Some(<< [name |-> "x86", dependencies |-> None] >>),
      Some(<< [name |-> "x86",
               dependencies |-> Some(<< [n |-> "c", v |-> PathDep] >>)] >>),
      Some(<< [name |-> "arm",
               dependencies |-> Some(<< [n |-> "a", v |-> SimpleDep("1.2")] >>)],
              [name |-> "x86",
               dependencies |-> Some(<< [n |-> "a", v |-> BadGitDep] >>)] >>) }

SectionInputs ==
    { [BaseInput EXCEPT
          !.m = [BaseManifest EXCEPT !.dependencies = d,
                                     !.dev_dependencies = dev,
                                     !.build_dependencies = bd,
                                     !.target = tg]] :
        d \in {None, Some(<< [n |-> "a", v |-> SimpleDep("1.2")] >>)},
        dev \in {None, Some(<<>>), Some(<< [n |-> "a", v |-> PathDep] >>)},
        bd \in {None, Some(<< [n |-> "a", v |-> SimpleDep("1.2")] >>),
                Some(<< [n |-> "b", v |-> BadGitDep] >>)},
        tg \in Platforms }

\* What the decoder left of the tree: nothing, or a table of unused keys,
\* three levels deep at most.
KeySeqs == { <<>>, << "bar" >>, << "foo" >>, << "bar", "foo" >> }

TablesOf(S) ==
    UNION { { Table([i \in DOMAIN ks |-> << ks[i], vs[i] >>]) :
                vs \in [DOMAIN ks -> S] } : ks \in KeySeqs }

ArraysOf(S) == { Array(items) : items \in SeqsUpTo(S, MaxArr) }

Values1 == {Leaf} \cup TablesOf({Leaf}) \cup ArraysOf({Leaf})

Values2 == {Leaf} \cup TablesOf(Values1) \cup ArraysOf(Values1)

UnusedTrees ==
    TablesOf(Values1)
    \cup { Table(<< << k, v >> >>) : k \in {"bar", "foo"}, v \in Values2 }

KeyInputs ==
    { [BaseInput EXCEPT !.d_toml = Some(t), !.fs = fs] :
        t \in UnusedTrees, fs \in {{}, {"src/lib.rs"}} }

\* Broken contents, and manifests with and without a package section.
ErrInputs ==
    { [BaseInput EXCEPT
          !.contents = c,
          !.m = [BaseManifest EXCEPT !.package = pkg, !.project = prj,
                                     !.dependencies = d,
                                     !.features_ok = fo],
          !.fs = fs] :
        c \in [utf8 : BOOLEAN, syntax : BOOLEAN, shape : BOOLEAN],
        pkg \in {None, Some([name |-> "foo", build |-> None])},
        prj \in {None, Some([name |-> "tool", build |-> None])},
        d \in {None, Some(<< [n |-> "b", v |-> BadGitDep] >>)},
        fo \in BOOLEAN,
        fs \in {{}, {"src/lib.rs"}, {"src/main.rs"}} }

Inputs ==
    StructInputs \cup AuxInputs \cup FlagInputs \cup ProfileInputs
    \cup BuildInputs \cup DepInputs \cup SectionInputs \cup KeyInputs
    \cup ErrInputs

(***************************************************************************)
(* The compile as a state machine.                                         *)
(***************************************************************************)
VARIABLES
    contents,       \* the manifest bytes: valid UTF-8, TOML, TomlManifest?
    toml_manifest,  \* the TomlManifest the contents decode to
    d_toml,         \* d.toml: what the decoder did not consume
    fs,             \* the files under the project root
    layout,         \* the Layout passed in
    source_id,      \* the SourceId of this package
    pc,             \* the step to_manifest is at
    targets,        \* TomlManifest::to_manifest's targets
    dep_queue,      \* the dependency entries still to process
    deps,           \* cx.deps
    nested_paths,   \* cx.nested_paths
    manifest,       \* the Manifest, once built
    ret,            \* what to_manifest returned
    merge_profile,  \* merge on its own: the baseline it is called with
    merge_toml,     \* merge on its own: the override section, if any
    merge_ret       \* merge on its own: the profile it returned

vars ==
    << contents, toml_manifest, d_toml, fs, layout, source_id, pc, targets,
       dep_queue, deps, nested_paths, manifest, ret, merge_profile,
       merge_toml, merge_ret >>

merge_vars == << merge_profile, merge_toml, merge_ret >>

compile_vars ==
    << contents, toml_manifest, d_toml, fs, layout, source_id, pc, targets,
       dep_queue, deps, nested_paths, manifest, ret >>

inputs == << contents, toml_manifest, d_toml, fs, layout, source_id >>

Pending == [tag |-> "Pending", msg |-> "", value |-> None]

Err(msg) == [tag |-> "Err", msg |-> msg, value |-> None]

Ok(m, paths) ==
    [tag |-> "Ok", msg |-> "", value |-> Some([manifest |-> m, paths |-> paths])]

Init ==
    \E i \in Inputs :
        /\ contents = i.contents
        /\ toml_manifest = i.m
        /\ d_toml = i.d_toml
        /\ fs = i.fs
        /\ layout = project_layout(i.fs)
        /\ source_id = i.source_id
        /\ pc = "decode"
        /\ targets = <<>>
        /\ dep_queue = <<>>
        /\ deps = <<>>
        /\ nested_paths = <<>>
        /\ manifest = None
        /\ ret = Pending
        /\ merge_profile = None
        /\ merge_toml = None
        /\ merge_ret = None

\* The error to_manifest ends with before it has a TomlManifest, or None.
decode_error(c) ==
    IF ~c.utf8 THEN Some("is not valid UTF-8")
    ELSE IF ~c.syntax THEN Some("could not parse input TOML")
    ELSE IF ~c.shape THEN Some("is not a valid manifest")
    ELSE None

\* to_manifest, lines 100-110: the bytes become a TomlManifest, or an error.
Decode ==
    /\ pc = "decode"
    /\ IF is_some(decode_error(contents))
       THEN /\ ret' = Err(decode_error(contents)[1])
            /\ pc' = "done"
       ELSE /\ ret' = ret
            /\ pc' = "to_manifest"
    /\ UNCHANGED << inputs, targets, dep_queue, deps, nested_paths, manifest >>
    /\ UNCHANGED merge_vars

\* TomlManifest::to_manifest, lines 378-473: the package section, the
\* descriptors of each role, the build script and normalize.
SynthesizeTargets ==
    /\ pc = "to_manifest"
    /\ IF is_none(project_of(toml_manifest))
       THEN /\ ret' = Err("No package or project section found.")
            /\ pc' = "done"
            /\ UNCHANGED << targets, dep_queue >>
       ELSE /\ targets' = manifest_targets(toml_manifest, layout, fs)
            /\ dep_queue' = dependency_entries(toml_manifest)
            /\ pc' = "deps"
            /\ ret' = ret
    /\ UNCHANGED << inputs, deps, nested_paths, manifest >>
    /\ UNCHANGED merge_vars

\* One turn of the loop of process_dependencies, lines 553-591.
ProcessDependency ==
    /\ pc = "deps"
    /\ dep_queue # <<>>
    /\ LET e == Head(dep_queue)
           details == details_of(e.v)
           error == dependency_error(details)
       IN  /\ nested_paths' = nested_paths \o nested_of(details)
           /\ IF is_some(error)
              THEN /\ ret' = Err(error[1])
                   /\ pc' = "done"
                   /\ UNCHANGED << deps, dep_queue >>
              ELSE /\ deps' = Append(deps,
                                     dependency_of(e.n, details, e.f, source_id))
                   /\ dep_queue' = Tail(dep_queue)
                   /\ UNCHANGED << ret, pc >>
    /\ UNCHANGED << inputs, targets, manifest >>
    /\ UNCHANGED merge_vars

\* The warnings Manifest::new's caller adds, lines 529-540.
deprecation_warnings(m, files) ==
    (IF used_deprecated_lib(m)
     THEN << "the [[lib]] section has been deprecated in favor of [lib]" >>
     ELSE <<>>)
    \o (IF Len(old_build(m, files)) >= 1
        THEN << "warning: an arbitrary build command has now been deprecated.",
                "         It has been replaced by custom build scripts.",
                "         For more information, see http://doc.crates.io/build-script.html" >>
        ELSE <<>>)

\* Summary::new: whether the [features] table fits the dependencies.
Summary_new_ok(m) == m.features_ok

\* TomlManifest::to_manifest, lines 504-541: the Summary, the Manifest and
\* its warnings.
BuildManifest ==
    /\ pc = "deps"
    /\ dep_queue = <<>>
    /\ IF ~Summary_new_ok(toml_manifest)
       THEN /\ ret' = Err("invalid features")
            /\ pc' = "done"
            /\ manifest' = manifest
       ELSE /\ manifest' =
                  Some([ name         |-> project_of(toml_manifest)[1].name,
                         dependencies |-> deps,
                         targets      |-> targets,
                         build        |-> old_build(toml_manifest, fs),
                         warnings     |->
                             deprecation_warnings(toml_manifest, fs) ])
            /\ pc' = "unused_keys"
            /\ ret' = ret
    /\ UNCHANGED << inputs, targets, dep_queue, deps, nested_paths >>
    /\ UNCHANGED merge_vars

\* to_manifest, lines 116-120: a warning for every key left undecoded.
AddUnusedKeys ==
    /\ pc = "unused_keys"
    /\ manifest' =
          IF is_some(d_toml)
          THEN Some([manifest[1] EXCEPT
                        !.warnings = @ \o add_unused_keys(d_toml[1], "")])
          ELSE manifest
    /\ pc' = "check_targets"
    /\ UNCHANGED << inputs, targets, dep_queue, deps, nested_paths, ret >>
    /\ UNCHANGED merge_vars

\* to_manifest, lines 121-125: a manifest without targets is an error.
CheckTargets ==
    /\ pc = "check_targets"
    /\ ret' = IF Len(manifest[1].targets) = 0
              THEN Err("either a [lib] or [[bin]] section must be present")
              ELSE Ok(manifest[1], nested_paths)
    /\ pc' = "done"
    /\ UNCHANGED << inputs, targets, dep_queue, deps, nested_paths, manifest >>
    /\ UNCHANGED merge_vars

Next ==
    \/ Decode
    \/ SynthesizeTargets
    \/ ProcessDependency
    \/ BuildManifest
    \/ AddUnusedKeys
    \/ CheckTargets

Spec == Init /\ [][Next]_vars

(***************************************************************************)
(* merge on its own: one call, on a baseline normalize calls it with and   *)
(* an override section of [profile].                                       *)
(***************************************************************************)

\* The baselines the local functions of normalize hand to merge.
MergeBaselines ==
    { Profile_default_dev, Profile_default_release, Profile_default_test,
      Profile_default_bench,
      [Profile_default_test EXCEPT !.test = FALSE],
      [Profile_default_doc EXCEPT !.doc = FALSE],
      [Profile_default_bench EXCEPT !.test = FALSE],
      [Profile_default_dev EXCEPT !.for_host = TRUE, !.custom_build = TRUE] }
    \cup { [Profile_default_doc EXCEPT !.doctest = d] : d \in BOOLEAN }
    \cup { [Profile_default_test EXCEPT !.harness = h] : h \in BOOLEAN }
    \cup { [Profile_default_bench EXCEPT !.harness = h] : h \in BOOLEAN }

\* TomlProfile: each field given or left out.
TomlProfileSet ==
    [ opt_level : Opt({0, 3}), codegen_units : Opt({2}),
      debug : Opt(BOOLEAN), rpath : Opt(BOOLEAN) ]

MergeInit ==
    /\ contents = BaseInput.contents
    /\ toml_manifest = BaseInput.m
    /\ d_toml = BaseInput.d_toml
    /\ fs = BaseInput.fs
    /\ layout = project_layout(BaseInput.fs)
    /\ source_id = BaseInput.source_id
    /\ pc = "merge"
    /\ targets = <<>>
    /\ dep_queue = <<>>
    /\ deps = <<>>
    /\ nested_paths = <<>>
    /\ manifest = None
    /\ ret = Pending
    /\ merge_profile \in {Some(p) : p \in MergeBaselines}
    /\ merge_toml \in Opt(TomlProfileSet)
    /\ merge_ret = None

\* merge, lines 668-679.
ApplyMerge ==
    /\ pc = "merge"
    /\ is_none(merge_ret)
    /\ merge_ret' = Some(merge(merge_profile[1], merge_toml))
    /\ UNCHANGED << compile_vars, merge_profile, merge_toml >>

MergeNext == ApplyMerge

MergeSpec == MergeInit /\ [][MergeNext]_vars

(***************************************************************************)
(* Properties.                                                             *)
(***************************************************************************)
Count(seq, P(_)) == Cardinality({i \in DOMAIN seq : P(seq[i])})

\* The targets of one role, in order.
OfKind(ts, kind) == SelectSeq(ts, LAMBDA t : t.kind = kind)

HasKind(ts, kinds) == \E i \in DOMAIN ts : ts[i].kind \in kinds

\* The profile variants a linking target needs: the test profile, not run.
NonExecutingTest(t) == t.profile.env = "test" /\ ~t.profile.test

ExecutingTest(t) == t.profile.env = "test" /\ t.profile.test

\* C1: no two targets of the synthesized list have the same name, role and
\* profile.
C1_UniqueTargets ==
    \A i, j \in DOMAIN targets :
        i # j =>
            << targets[i].name, targets[i].kind, targets[i].profile >>
            # << targets[j].name, targets[j].kind, targets[j].profile >>

\* C2, as claimed: with a library and an example, test or benchmark, the
\* library has the non-executing test variant and the normal test variant.
C2_BothTestVariants ==
    (HasKind(targets, {"lib"}) /\ HasKind(targets, {"example", "test", "bench"}))
        => /\ \E i \in DOMAIN targets :
                targets[i].kind = "lib" /\ NonExecutingTest(targets[i])
           /\ \E i \in DOMAIN targets :
                targets[i].kind = "lib" /\ ExecutingTest(targets[i])

\* C2, amended: with a library and an example, test or benchmark, the
\* library has exactly one non-executing test variant, and the normal test
\* variant too unless the library descriptor sets test = false.
C2_NonExecutingTestVariant ==
    (HasKind(targets, {"lib"}) /\ HasKind(targets, {"example", "test", "bench"}))
        => /\ Count(OfKind(targets, "lib"), NonExecutingTest) = 1
           /\ Count(OfKind(targets, "lib"), ExecutingTest) =
                IF resolved_lib(toml_manifest, layout)[1].test = Some(FALSE)
                THEN 0 ELSE 1

\* C2's case: a library that does not opt out of tests, beside a test target.
C2_Witness ==
    /\ HasKind(targets, {"lib"})
    /\ HasKind(targets, {"test"})
    /\ Count(OfKind(targets, "lib"), ExecutingTest) = 1
    /\ Count(OfKind(targets, "lib"), NonExecutingTest) = 1

\* C3: a compile that gets as far as the target check, with no library file,
\* no [lib], no [[bin]] and no binary source file, ends with the
\* empty-target-set error and has synthesized no target.
C3_EmptyTargetSetError ==
    ( /\ pc = "done"
      /\ is_some(manifest)
      /\ is_none(layout.lib)
      /\ layout.bins = <<>>
      /\ is_none(toml_manifest.lib)
      /\ is_none(toml_manifest.bin) )
        => /\ ret = Err("either a [lib] or [[bin]] section must be present")
           /\ targets = <<>>

\* C3's counterexample case seen from the other side: the error is returned
\* when nothing at all was synthesized.
C3_Witness ==
    /\ pc = "done"
    /\ targets = <<>>
    /\ ret = Err("either a [lib] or [[bin]] section must be present")

\* The dependency entries in the order they are processed: deps[i] is made
\* from Entries[i].
Entries == dependency_entries(toml_manifest)

\* An entry with path = P and no other source field.
PathOnly(v, P) ==
    /\ ~v.simple
    /\ v.details.path = Some(P)
    /\ is_none(v.details.git)
    /\ is_none(v.details.branch)
    /\ is_none(v.details.tag)
    /\ is_none(v.details.rev)

EntryPaths ==
    {Entries[i].v.details.path[1] :
        i \in {j \in DOMAIN Entries : is_some(Entries[j].v.details.path)}}

\* Each processed path-only entry has put its path on nested_paths once, and
\* nothing else has put it there.
NestedPathOnce ==
    \A P \in EntryPaths \cup Range(nested_paths) :
        Cardinality({i \in DOMAIN nested_paths : nested_paths[i] = P})
        = Cardinality({i \in DOMAIN deps : PathOnly(Entries[i].v, P)})

\* C4, as claimed: a path-only dependency gets a local-path SourceId, and its
\* path is on nested_paths exactly once.
C4_LocalPathSourceId ==
    ret.tag # "Err" =>
        /\ \A i \in DOMAIN deps : \A P \in EntryPaths :
              PathOnly(Entries[i].v, P) => deps[i].source_id.kind = "path"
        /\ NestedPathOnce

\* C4, amended: a path-only dependency gets the SourceId of the package that
\* declares it, whatever kind that is, and its path is on nested_paths exactly
\* once.
C4_OwnSourceId ==
    ret.tag # "Err" =>
        /\ \A i \in DOMAIN deps : \A P \in EntryPaths :
              PathOnly(Entries[i].v, P) => deps[i].source_id = source_id
        /\ NestedPathOnce

\* C4's case: two path-only dependencies of a package that itself lives in a
\* git repository.
C4_Witness ==
    /\ ret.tag = "Ok"
    /\ source_id.kind = "git"
    /\ nested_paths = << "../foo", "../bar" >>
    /\ \A i \in DOMAIN deps : deps[i].source_id = source_id

\* The key paths of the leaves of a tree, each as the sequence of its keys.
RECURSIVE LeafPaths(_)
LeafPaths(v) ==
    IF v.t = "leaf" THEN {<<>>}
    ELSE IF v.t = "array"
    THEN UNION {LeafPaths(v.items[i]) : i \in DOMAIN v.items}
    ELSE UNION {{<< v.kv[i][1] >> \o p : p \in LeafPaths(v.kv[i][2])} :
                    i \in DOMAIN v.kv}

RECURSIVE Dotted(_)
Dotted(p) ==
    IF Len(p) = 1 THEN p[1] ELSE p[1] \o "." \o Dotted(Tail(p))

IsUnusedKeyWarning(w) ==
    Len(w) >= 20 /\ SubSeq(w, 1, 20) = "unused manifest key:"

\* C5: the warnings of a returned manifest name the dotted path of every
\* leaf the decoder left, and name no other key.
C5_UnusedKeyWarnings ==
    ret.tag = "Ok" =>
        LET ws == Range(ret.value[1].manifest.warnings)
            left == IF is_some(d_toml) THEN LeafPaths(d_toml[1]) ELSE {}
        IN  {w \in ws : IsUnusedKeyWarning(w)}
            = {"unused manifest key: " \o Dotted(p) : p \in left}

\* C5's case: an unused key inside a table of an array of tables.
C5_Witness ==
    /\ ret.tag = "Ok"
    /\ d_toml = Some(Table(<< << "foo",
                    Array(<< Table(<< << "bar", Leaf >> >>), Leaf >>) >> >>))
    /\ ret.value[1].manifest.warnings
         = << "unused manifest key: foo.bar", "unused manifest key: foo" >>

\* An entry in the detailed form with the version V and nothing else.
VersionOnly(v, V) ==
    /\ ~v.simple
    /\ v.details = [DetailedTomlDependency_default EXCEPT !.version = Some(V)]

\* C6: a bare version string gives the record of the documented defaults,
\* the same record as the detailed form with only that version, and neither
\* form records a nested path.
C6_ShorthandIsDetailed ==
    /\ \A i \in DOMAIN deps :
          Entries[i].v.simple =>
            /\ deps[i] = [ name              |-> Entries[i].n,
                           req               |-> Some(Entries[i].v.version),
                           source_id         |-> SourceId_for_central,
                           kind              |-> Entries[i].f.kind,
                           only_for_platform |-> Entries[i].f.platform,
                           features          |-> <<>>,
                           default_features  |-> TRUE,
                           optional          |-> FALSE ]
            /\ \A j \in DOMAIN deps :
                  VersionOnly(Entries[j].v, Entries[i].v.version) =>
                     [deps[j] EXCEPT !.name = deps[i].name,
                                     !.kind = deps[i].kind,
                                     !.only_for_platform =
                                          deps[i].only_for_platform]
                     = deps[i]
    /\ (\A i \in DOMAIN deps :
            \/ Entries[i].v.simple
            \/ VersionOnly(Entries[i].v, "1.2")) => nested_paths = <<>>

\* C6's case: both forms of the same version in one manifest.
C6_Witness ==
    /\ ret.tag = "Ok"
    /\ \E i, j \in DOMAIN deps :
          /\ Entries[i].v = SimpleDep("1.2")
          /\ VersionOnly(Entries[j].v, "1.2")
          /\ deps[i].kind = "Normal"

\* C7: a git dependency's reference is its branch, else its tag, else its
\* revision, else "master", and an entry is refused as a bad URL only when
\* its URL is malformed, never for giving several selectors.
C7_ReferenceSelector ==
    /\ \A i \in DOMAIN deps :
          LET d == Entries[i].v.details
          IN  is_some(d.git) =>
                /\ deps[i].source_id.kind = "git"
                /\ deps[i].source_id.url = d.git[1]
                /\ deps[i].source_id.reference =
                      IF is_some(d.branch) THEN d.branch[1]
                      ELSE IF is_some(d.tag) THEN d.tag[1]
                      ELSE IF is_some(d.rev) THEN d.rev[1]
                      ELSE "master"
    /\ (ret.tag = "Err" /\ ret.msg = "invalid url")
          => Head(dep_queue).v.details.git = Some("host/repo")

\* C7's case: branch and tag both given, the branch taken.
C7_Witness ==
    /\ ret.tag = "Ok"
    /\ \E i \in DOMAIN deps :
          /\ is_some(Entries[i].v.details.branch)
          /\ is_some(Entries[i].v.details.tag)
          /\ deps[i].source_id.reference = "next"
    /\ \E i \in DOMAIN deps :
          /\ Entries[i].v.details.tag = Some("v1.0")
          /\ is_none(Entries[i].v.details.branch)
          /\ deps[i].source_id.reference = "v1.0"

\* normalize has run: to_manifest got past decoding and the package section.
Synthesized ==
    /\ pc \notin {"decode", "to_manifest"}
    /\ is_none(decode_error(contents))
    /\ is_some(project_of(toml_manifest))

\* The descriptors target_profiles is applied to: the library normalize
\* uses, and every binary.
Descriptors(kind) ==
    IF kind = "lib"
    THEN LET libs == resolved_lib(toml_manifest, layout)
         IN  IF libs = <<>> THEN <<>> ELSE << libs[1] >>
    ELSE resolved_bins(toml_manifest, layout)

\* How many targets of a role and name are the given variant, and how many
\* descriptors of that role and name ask for it.
Emitted(kind, name, V(_)) ==
    Cardinality({i \in DOMAIN targets :
        targets[i].kind = kind /\ targets[i].name = name /\ V(targets[i])})

Asked(kind, name, Q(_)) ==
    LET ds == Descriptors(kind)
    IN  Cardinality({i \in DOMAIN ds : ds[i].name = name /\ Q(ds[i])})

IsBuildScript(build) ==
    /\ is_some(build)
    /\ ~build[1].multiple
    /\ LET cmd == build[1].cmds[1]
       IN  /\ Len(cmd) >= 3
           /\ SubSeq(cmd, Len(cmd) - 2, Len(cmd)) = ".rs"
           /\ cmd \in fs

BuildDeprecated(m) ==
    "warning: an arbitrary build command has now been deprecated."
        \in Range(m.warnings)

\* C9: a build script becomes exactly one custom-build target, with a
\* host-side dev profile, and leaves no legacy command and no deprecation
\* warning; any other build field leaves every command it declares as a
\* legacy command, with the warning, and no custom-build target.
C9_BuildScriptOrLegacy ==
    is_some(manifest) =>
        LET m == manifest[1]
            build == project_of(toml_manifest)[1].build
            scripts == OfKind(m.targets, "custom_build")
        IN  IF IsBuildScript(build)
            THEN /\ Len(scripts) = 1
                 /\ scripts[1].profile.env = "compile"
                 /\ scripts[1].profile.for_host
                 /\ scripts[1].profile.custom_build
                 /\ ~scripts[1].profile.test
                 /\ ~scripts[1].profile.doc
                 /\ scripts[1].src_path = build[1].cmds[1]
                 /\ m.build = <<>>
                 /\ ~BuildDeprecated(m)
            ELSE /\ scripts = <<>>
                 /\ m.build = IF is_some(build) THEN build[1].cmds ELSE <<>>
                 /\ BuildDeprecated(m) = (m.build # <<>>)

\* C9's case: a build script under an overridden dev profile, returned.
C9_Witness ==
    /\ ret.tag = "Ok"
    /\ \E i \in DOMAIN ret.value[1].manifest.targets :
          LET t == ret.value[1].manifest.targets[i]
          IN  /\ t.kind = "custom_build"
              /\ t.name = "build-script-build"
              /\ t.profile.opt_level = 3
    /\ ret.value[1].manifest.build = <<>>

\* The package fingerprint with one string mixed in.
Mixed(name, s) == Some([pkg |-> name, mixed |-> << s >>])

\* C10: the library's test-mode variants carry the fingerprint mixed with
\* "test", a binary's carry it mixed with "bin-<name>" and its other
\* variants carry none, test and bench targets carry it mixed with
\* "test-<name>" and "bench-<name>"; so the library's test build never has
\* the metadata of a test, bench or binary test build.
C10_MetadataTags ==
    Synthesized =>
        LET pkg == project_of(toml_manifest)[1].name
        IN  /\ \A i \in DOMAIN targets :
                  LET t == targets[i]
                  IN  /\ (t.kind = "lib" /\ t.profile.test)
                         => t.metadata = Mixed(pkg, "test")
                      /\ t.kind = "bin"
                         => t.metadata = IF t.profile.test
                                         THEN Mixed(pkg, "bin-" \o t.name)
                                         ELSE None
                      /\ t.kind = "test"
                         => t.metadata = Mixed(pkg, "test-" \o t.name)
                      /\ t.kind = "bench"
                         => t.metadata = Mixed(pkg, "bench-" \o t.name)
            /\ \A i, j \in DOMAIN targets :
                  ( /\ targets[i].kind = "lib"
                    /\ targets[i].profile.test
                    /\ targets[j].kind \in {"bin", "test", "bench"}
                    /\ targets[j].profile.test )
                  => targets[i].metadata # targets[j].metadata

\* C10's case: a library, a binary and a test all named foo.
C10_Witness ==
    /\ Synthesized
    /\ \E i, j, k \in DOMAIN targets :
          /\ targets[i].kind = "lib" /\ targets[i].profile.test
          /\ targets[j].kind = "bin" /\ targets[j].profile.test
          /\ targets[k].kind = "test"
          /\ targets[i].name = "foo"
          /\ targets[j].name = "foo"
          /\ targets[k].name = "foo"


\* The library descriptors TomlManifest::to_manifest hands to normalize.
Libs == resolved_lib(toml_manifest, layout)

\* C11: every library target is made from one descriptor, the first of the
\* list: one name, one source path, one list of crate kinds; and with no
\* descriptor there is no library target.
C11_SingleLibraryDescriptor ==
    Synthesized =>
        /\ \A i, j \in DOMAIN targets :
              targets[i].kind = "lib" /\ targets[j].kind = "lib" =>
                  /\ targets[i].name = targets[j].name
                  /\ targets[i].src_path = targets[j].src_path
                  /\ targets[i].crate_types = targets[j].crate_types
        /\ \A i \in DOMAIN targets :
              targets[i].kind = "lib" =>
                  /\ Libs # <<>>
                  /\ targets[i].name = Libs[1].name
        /\ Libs = <<>> => ~HasKind(targets, {"lib"})

\* C11's case: a [[lib]] list of two libraries of different names, compiled
\* to a manifest with library targets.
C11_Witness ==
    /\ ret.tag = "Ok"
    /\ is_some(toml_manifest.lib)
    /\ toml_manifest.lib[1].many
    /\ Len(toml_manifest.lib[1].items) = 2
    /\ toml_manifest.lib[1].items[1].name # toml_manifest.lib[1].items[2].name
    /\ HasKind(ret.value[1].manifest.targets, {"lib"})


\* The binary descriptors TomlManifest::to_manifest hands to normalize.
Bins == resolved_bins(toml_manifest, layout)

\* The variants made for targets that link a library or binary: the test,
\* doc or bench profile with its own run switched off.
LinkOnly(t, env) ==
    /\ t.kind \in {"lib", "bin"}
    /\ t.profile.env = env
    /\ ~t.profile.test
    /\ ~t.profile.doc

LinkEnvs == {"test", "doc", "bench"}

HasLinkOnly(kind) ==
    \E i \in DOMAIN targets :
        targets[i].kind = kind /\ \E env \in LinkEnvs : LinkOnly(targets[i], env)

\* Whether the manifest has an example, integration test or benchmark.
HasAux == HasKind(targets, {"example", "test", "bench"})

\* How many targets of a role and name are the link-only variant of env.
LinkOnlyCount(kind, name, env) ==
    Cardinality({i \in DOMAIN targets :
        /\ targets[i].kind = kind
        /\ targets[i].name = name
        /\ LinkOnly(targets[i], env)})

\* C12, as claimed: the link-only variants exist only when the manifest has
\* an example, test or benchmark; then the library has them when there is
\* one, and the binaries have them only when there is no library.
C12_LinkOnlyWhenNeeded ==
    Synthesized =>
        /\ (HasLinkOnly("lib") \/ HasLinkOnly("bin")) => HasAux
        /\ HasAux /\ Libs # <<>> => HasLinkOnly("lib")
        /\ HasLinkOnly("bin") => Libs = <<>>
        /\ HasAux /\ Libs = <<>> /\ Bins # <<>> => HasLinkOnly("bin")

\* C12, amended: a library has one link-only variant of each of test, doc
\* and bench whenever there is a library; a binary has them exactly when the
\* manifest has an example, test or benchmark, library or no library.
C12_LinkOnlyVariants ==
    Synthesized =>
        /\ \A env \in LinkEnvs :
              Cardinality({i \in DOMAIN targets : LinkOnly(targets[i], env)
                                                   /\ targets[i].kind = "lib"})
              = IF Libs # <<>> THEN 1 ELSE 0
        /\ \A env \in LinkEnvs : \A b \in DOMAIN Bins :
              LinkOnlyCount("bin", Bins[b].name, env)
              = IF HasAux
                THEN Cardinality({k \in DOMAIN Bins : Bins[k].name = Bins[b].name})
                ELSE 0
        /\ Bins = <<>> => ~HasLinkOnly("bin")

\* C12's case: a library, a binary and an integration test; both the library
\* and the binary have the link-only variants.
C12_Witness ==
    /\ ret.tag = "Ok"
    /\ HasKind(targets, {"test"})
    /\ HasLinkOnly("lib")
    /\ HasLinkOnly("bin")


\* The fields of a Profile merge has no business with.
OtherFields ==
    {"env", "test", "doctest", "doc", "for_host", "harness", "custom_build"}

BadUrl(e) ==
    LET d == IF e.v.simple THEN D0 ELSE e.v.details
    IN  is_some(d.git) /\ ~Contains(d.git[1], "://", 2)

BadVersion(e) ==
    LET version == IF e.v.simple THEN Some(e.v.version) ELSE e.v.details.version
    IN  is_some(version) /\ ~version_req_ok(version[1])

\* The first fatal condition of a compile in pipeline order, "" for none:
\* encoding, syntax, decoding, the package section, the dependencies entry
\* by entry (URL before version requirement), the summary, and last the
\* empty target list.
FirstFatal ==
    IF ~contents.utf8 THEN "is not valid UTF-8"
    ELSE IF ~contents.syntax THEN "could not parse input TOML"
    ELSE IF ~contents.shape THEN "is not a valid manifest"
    ELSE IF is_none(toml_manifest.project) /\ is_none(toml_manifest.package)
    THEN "No package or project section found."
    ELSE LET bad == {i \in DOMAIN Entries :
                        BadUrl(Entries[i]) \/ BadVersion(Entries[i])}
         IN  IF bad # {}
             THEN LET first == CHOOSE i \in bad : \A j \in bad : i <= j
                  IN  IF BadUrl(Entries[first])
                      THEN "invalid url"
                      ELSE "invalid version requirement"
             ELSE IF ~toml_manifest.features_ok THEN "invalid features"
             ELSE IF targets = <<>>
             THEN "either a [lib] or [[bin]] section must be present"
             ELSE ""

\* C14: a compile ends with the first fatal condition in pipeline order and
\* then returns an error alone, no manifest; without one it returns the
\* manifest.  The empty-target error comes only when every dependency has
\* been resolved, and nothing runs after an error.
C14_FirstFatalWins ==
    /\ ret.tag = "Err" => pc = "done" /\ is_none(ret.value)
    /\ pc = "done" =>
          IF FirstFatal = ""
          THEN ret.tag = "Ok"
          ELSE ret = Err(FirstFatal)
    /\ ret = Err("either a [lib] or [[bin]] section must be present") =>
          /\ dep_queue = <<>>
          /\ Len(deps) = Len(Entries)

\* C14's case: a manifest with a malformed remote URL and no target at all
\* ends with the URL error.
C14_Witness ==
    /\ pc = "done"
    /\ is_none(decode_error(contents))
    /\ is_some(project_of(toml_manifest))
    /\ targets = <<>>
    /\ \E i \in DOMAIN Entries : BadUrl(Entries[i])
    /\ ret = Err("invalid url")


\* The name and source path of each target of a role, in order.
NamePaths(kind) ==
    LET ts == OfKind(targets, kind)
    IN  [i \in DOMAIN ts |-> << ts[i].name, ts[i].src_path >>]

\* The same for the files the layout found: the name is the file's stem.
FromLayout(files) ==
    [i \in DOMAIN files |-> << filestem_str(files[i]), files[i] >>]

\* The same for declared descriptors, a missing path being dir/<name>.rs.
FromDeclared(ds, dir) ==
    [i \in DOMAIN ds |->
        << ds[i].name,
           IF is_some(ds[i].path) THEN ds[i].path[1]
           ELSE dir \o "/" \o ds[i].name \o ".rs" >>]

\* The same, with the path src/<name>.rs for the descriptor called special.
FromDeclaredBut(ds, dir, special) ==
    [i \in DOMAIN ds |->
        << ds[i].name,
           IF is_some(ds[i].path) THEN ds[i].path[1]
           ELSE IF ds[i].name = special THEN "src/" \o special \o ".rs"
           ELSE dir \o "/" \o ds[i].name \o ".rs" >>]

\* C15, as claimed: each of examples, tests and benchmarks comes from the
\* layout's files exactly when the manifest does not declare the role, and
\* from the declared descriptors alone when it does, a descriptor without a
\* path getting examples/<name>.rs, tests/<name>.rs or benches/<name>.rs.
C15_DeclaredOrLayout ==
    Synthesized =>
        /\ NamePaths("example") =
              IF is_none(toml_manifest.example)
              THEN FromLayout(layout.examples)
              ELSE FromDeclared(toml_manifest.example[1], "examples")
        /\ NamePaths("test") =
              IF is_none(toml_manifest.test)
              THEN FromLayout(layout.tests)
              ELSE FromDeclared(toml_manifest.test[1], "tests")
        /\ NamePaths("bench") =
              IF is_none(toml_manifest.bench)
              THEN FromLayout(layout.benches)
              ELSE FromDeclared(toml_manifest.bench[1], "benches")

\* C15, amended: as claimed, but a declared empty list of benchmarks counts
\* as none declared, a test called "test" without a path gets src/test.rs
\* and a benchmark called "bench" without a path gets src/bench.rs.
C15_DeclaredOrLayoutButSpecial ==
    Synthesized =>
        /\ NamePaths("example") =
              IF is_none(toml_manifest.example)
              THEN FromLayout(layout.examples)
              ELSE FromDeclared(toml_manifest.example[1], "examples")
        /\ NamePaths("test") =
              IF is_none(toml_manifest.test)
              THEN FromLayout(layout.tests)
              ELSE FromDeclaredBut(toml_manifest.test[1], "tests", "test")
        /\ NamePaths("bench") =
              IF is_none(toml_manifest.bench) \/ toml_manifest.bench = Some(<<>>)
              THEN FromLayout(layout.benches)
              ELSE FromDeclaredBut(toml_manifest.bench[1], "benches", "bench")

\* C15's case: a declared example without a path and a declared empty list
\* of tests, beside files of both roles and an undeclared benchmark file.
C15_Witness ==
    /\ ret.tag = "Ok"
    /\ toml_manifest.example = Some(<< T("demo") >>)
    /\ toml_manifest.test = Some(<<>>)
    /\ is_none(toml_manifest.bench)
    /\ {"examples/ex.rs", "tests/foo.rs", "benches/foo.rs"} \subseteq fs
    /\ NamePaths("example") = << << "demo", "examples/demo.rs" >> >>
    /\ NamePaths("test") = <<>>
    /\ NamePaths("bench") = << << "foo", "benches/foo.rs" >> >>


\* The binary descriptors as the targets show them: every descriptor has one
\* dev variant, so its name and source path, in order.
DevBins ==
    LET ts == SelectSeq(targets,
                        LAMBDA t : t.kind = "bin" /\ t.profile.env = "compile")
    IN  [i \in DOMAIN ts |-> << ts[i].name, ts[i].src_path >>]

\* One descriptor for each executable source file of the layout, the main
\* file named main_name and the others by their stem.
OnePerFile(main_name) ==
    [i \in DOMAIN layout.bins |->
        << IF layout.bins[i] = "src/main.rs"
           THEN main_name
           ELSE filestem_str(layout.bins[i]),
           layout.bins[i] >>]

\* The name the manifest declares for its library, if it declares one.
DeclaredLibName ==
    IF is_some(toml_manifest.lib) /\ toml_manifest.lib[1].items # <<>>
    THEN toml_manifest.lib[1].items[1].name
    ELSE project_of(toml_manifest)[1].name

\* C16, as claimed: with no binaries declared there is one binary descriptor
\* for each executable source file of the layout, the main file's named as
\* the library is declared and the others by the file's base name.
C16_MainNamedAfterLibrary ==
    Synthesized /\ is_none(toml_manifest.bin) =>
        DevBins = OnePerFile(DeclaredLibName)

\* C16, amended: the same, the main file's descriptor named as the package.
C16_MainNamedAfterPackage ==
    Synthesized /\ is_none(toml_manifest.bin) =>
        DevBins = OnePerFile(project_of(toml_manifest)[1].name)

\* C16's case: package foo declares the library mylib and no binaries, and
\* has src/main.rs and src/bin/tool.rs.
C16_Witness ==
    /\ ret.tag = "Ok"
    /\ is_none(toml_manifest.bin)
    /\ DeclaredLibName = "mylib"
    /\ DevBins = << << "foo", "src/main.rs" >>, << "tool", "src/bin/tool.rs" >> >>


LibDeprecated == "the [[lib]] section has been deprecated in favor of [lib]"

\* The warnings of the manifest to_manifest returned.
Warnings == ret.value[1].manifest.warnings

\* A [lib] table, and a [[lib]] list of n entries.
LibIsTable == is_some(toml_manifest.lib) /\ ~toml_manifest.lib[1].many

LibIsListOf(n) ==
    /\ is_some(toml_manifest.lib)
    /\ toml_manifest.lib[1].many
    /\ Len(toml_manifest.lib[1].items) = n

\* A library section of any shape is never what makes the compile fail.
LibNeverRejected ==
    pc = "done" /\ is_some(toml_manifest.lib) /\ FirstFatal = "" =>
        ret.tag = "Ok"

\* C17, as claimed: a library given as a table or as a list of one entry
\* brings no deprecation warning; a list of more than one entry is accepted
\* and brings the warning.
C17_WarnsOnLongList ==
    /\ LibNeverRejected
    /\ ret.tag = "Ok" =>
          /\ LibIsTable \/ LibIsListOf(1) =>
                \A i \in DOMAIN Warnings : Warnings[i] # LibDeprecated
          /\ (\E n \in 2..MaxDeclared : LibIsListOf(n)) =>
                \E i \in DOMAIN Warnings : Warnings[i] = LibDeprecated

\* C17, amended: a library given as a table brings no deprecation warning;
\* given as a list, of one entry or of more, it is accepted and brings the
\* warning once.
C17_WarnsOnAnyList ==
    /\ LibNeverRejected
    /\ ret.tag = "Ok" =>
          Cardinality({i \in DOMAIN Warnings : Warnings[i] = LibDeprecated})
          = IF is_some(toml_manifest.lib) /\ toml_manifest.lib[1].many
            THEN 1 ELSE 0

\* C17's case: a [[lib]] list of one entry, accepted with the warning.
C17_Witness ==
    /\ ret.tag = "Ok"
    /\ LibIsListOf(1)
    /\ \E i \in DOMAIN Warnings : Warnings[i] = LibDeprecated

=============================================================================
